---- MODULE Spec2Model ----
(***************************************************************************)
(* jp2k: Stream::decode (src/src/lib.rs) as a state machine, with the     *)
(* life of the Stream it consumes, Info::build and the DecodeParams         *)
(* builder.                                                                *)
(*                                                                         *)
(* One decode call is followed from its entry to its return.  The steps    *)
(* are the calls into the decoding engine (OpenJPEG, reached through the   *)
(* ffi), the computation of the output dimensions, the packing of the      *)
(* component planes, and the drops that Rust runs when the function's      *)
(* scope ends.  What the engine answers is an input of the model: every    *)
(* call may return 1 (OPJ_TRUE) or 0, and the image it describes is drawn  *)
(* from a small set.                                                       *)
(*                                                                         *)
(* u32 arithmetic keeps its width.  With overflow checks (a debug build)   *)
(* an overflowing shift or product panics; without them (a release build)  *)
(* the shift amount is taken modulo 32 and the product modulo 2^32.        *)
(***************************************************************************)
EXTENDS Integers, Sequences, FiniteSets, TLC

VARIABLES
    pc,               \* position of the decode call
    overflow_checks,  \* the build: TRUE panics on u32 overflow, FALSE wraps
    params,           \* DecodeParams handed to decode
    inner_params,     \* InnerDecodeParams: cp_reduce, cp_layer
    img,              \* the local `img`: "undeclared", "null" or "ptr"
    image,            \* the engine's opj_image_t behind img.0
    calls,            \* the stages run so far, each with its outcome
    width, height, factor,   \* the locals of lines 237-242
    result,           \* what decode gives back to its caller
    destroyed,        \* the engine objects destroyed so far, in order
    consumer,         \* what took the Stream: "decode", "Info::build", ...
    buf,              \* the bytes handed to Stream::from_bytes
    cur,              \* position of the boxed Cursor
    delivered,        \* every byte the read callback has copied out, in order
    last_read,        \* the latest call of the read callback, if any
    frees,            \* how often the release callback has run
    built             \* the with_* calls made on the DecodeParams, in order

vars == <<pc, overflow_checks, params, inner_params, img, image, calls,
          width, height, factor, result, destroyed, consumer, buf, cur,
          delivered, last_read, frees, built>>

\* What no stage of decode touches: who holds the stream, the cursor and
\* what it has delivered, and the builder's history.
held == <<consumer, buf, cur, delivered, last_read, built>>

(***************************************************************************)
(* Bounds of the model.                                                    *)
(***************************************************************************)
MaxExtent == 3     \* small image extents are 1..MaxExtent
MaxComps == 5      \* the engine reports 1..MaxComps components
MaxFactor == 1     \* small reduction factors are 0..MaxFactor
MaxLen == 3        \* the byte source holds 0..MaxLen bytes
MaxRequest == 2    \* the engine asks for 0..MaxRequest bytes per read
MaxCalls == 3      \* a DecodeParams is built with 0..MaxCalls with_* calls

\* Option<T>: None is the empty set, Some(v) the set of v alone.
None == {}
Some(v) == {v}
unwrap(o) == CHOOSE v \in o : TRUE

\* Width of u32 in bits.
WordBits == 32

\* 2^n for the exponents a 32-bit signed integer can hold.
RECURSIVE Pow2(_)
Pow2(n) == IF n = 0 THEN 1 ELSE 2 * Pow2(n - 1)

(***************************************************************************)
(* u32 multiplication.  Two factors below 2^15 give a product below 2^30,  *)
(* which is the product itself; any others are multiplied on base-256      *)
(* digits, so that no intermediate value leaves the range of TLC's         *)
(* integers.                                                               *)
(***************************************************************************)
Small(a, b) == a < Pow2(15) /\ b < Pow2(15)

Digit(a, i) ==
    (a \div (CASE i = 0 -> 1 [] i = 1 -> 256 [] i = 2 -> 65536
               [] i = 3 -> 16777216)) % 256

Column(a, b, k) ==
    LET Term(i) == IF k - i \in 0..3 THEN Digit(a, i) * Digit(b, k - i) ELSE 0
    IN  Term(0) + Term(1) + Term(2) + Term(3)

\* Column k of the product with the carry of the columns below it.
RECURSIVE Acc(_, _, _)
Acc(a, b, k) ==
    Column(a, b, k) + (IF k = 0 THEN 0 ELSE Acc(a, b, k - 1) \div 256)

\* a * b as the release build computes it: the low 32 bits.
wrapping_mul(a, b) ==
    IF Small(a, b) THEN a * b
    ELSE (Acc(a, b, 0) % 256) + 256 * (Acc(a, b, 1) % 256)
           + 65536 * (Acc(a, b, 2) % 256) + 16777216 * (Acc(a, b, 3) % 256)

\* a * b does not fit in a u32: the debug build panics here.
mul_overflows(a, b) ==
    IF Small(a, b) THEN FALSE
    ELSE Acc(a, b, 4) # 0 \/ Acc(a, b, 5) # 0 \/ Acc(a, b, 6) # 0

\* 1 << amount on u32 as the release build computes it: the amount is
\* masked to the word's bits.
wrapping_shl1(amount) == Pow2(amount % WordBits)

\* 1 << amount overflows: the debug build panics here.
shl_overflows(amount) == amount >= WordBits

\* DecodeParams::value_for_discard_level, overflow checks off.
value_for_discard_level(u, discard_level) ==
    LET div == wrapping_shl1(discard_level)
        quot == u \div div
        rem == u % div
    IN  IF rem > 0 THEN quot + 1 ELSE quot

(***************************************************************************)
(* The inputs: the DecodeParams a caller can build, and what the engine    *)
(* can report.                                                             *)
(***************************************************************************)
Area(x0, y0, x1, y1) == [x0 |-> x0, y0 |-> y0, x1 |-> x1, y1 |-> y1]

\* Decode regions (i32 coordinates): the all-zero box, a box with x1 = x0,
\* a box with x1 < x0, a proper box at the origin, and a proper box left of
\* and above every image.
Areas ==
    { Area(0, 0, 0, 0), Area(1, 0, 1, 2), Area(2, 0, 1, 1),
      Area(0, 0, 2, 2), Area(-2, -2, -1, -1) }

ParamsSpace ==
    [ default_color_space : {None},
      reduce_factor       : {None, Some(1)},
      decoding_area       : {None} \cup {Some(a) : a \in Areas},
      quality_layers      : {None, Some(1)},
      num_threads         : {None, Some(2)} ]

\* Image extents: small ones, and one whose square does not fit in a u32.
Extents == (1..MaxExtent) \cup {65536}
Origins == {0, 1}

\* Image bounds the engine can report: x0 < x1 and y0 < y1 always.
Geometries ==
    { Area(o, o, o + w, o + h) : o \in Origins, w \in 1..MaxExtent,
                                 h \in 1..MaxExtent }
    \cup { Area(0, 0, e, e) : e \in Extents \ (1..MaxExtent) }

Precisions == {8, 16}

\* Component precisions: the first has p and the others q; and a single
\* 12-bit component.
Layouts ==
    { [k \in 1..n |-> IF k = 1 THEN p ELSE q] :
        n \in 1..MaxComps, p \in Precisions, q \in Precisions }
    \cup { <<12>> }

\* Reduction factors the engine can apply: small ones, and the first that
\* does not fit the shift.
Factors == (0..MaxFactor) \cup {WordBits}

\* OPJ_BOOL
OPJ_TRUE == 1
OPJ_BOOL == {0, 1}

NoImage ==
    [x0 |-> 0, y0 |-> 0, x1 |-> 0, y1 |-> 0, comps |-> <<>>, decoded |-> FALSE]

(***************************************************************************)
(* The engine, at its boundary.                                            *)
(***************************************************************************)
Proper(a) == a.x1 > a.x0 /\ a.y1 > a.y0

\* A proper region that shares no pixel with the image bounds.
OutsideBounds(a, im) ==
    /\ Proper(a)
    /\ \/ a.x0 >= im.x1
       \/ a.x1 <= im.x0
       \/ a.y0 >= im.y1
       \/ a.y1 <= im.y0

\* opj_set_decode_area: the engine refuses a region outside the image
\* bounds; any other region it may accept or refuse.
set_decode_area_returns(a, im) ==
    IF OutsideBounds(a, im) THEN {0} ELSE OPJ_BOOL

Max(a, b) == IF a >= b THEN a ELSE b
Min(a, b) == IF a <= b THEN a ELSE b

\* The image bounds after the engine accepted region a: a proper region
\* is clipped to the bounds, any other (the all-zero box stands for the
\* whole image) leaves them as they are.
set_decode_area_bounds(a, im) ==
    IF Proper(a)
    THEN [im EXCEPT !.x0 = Max(a.x0, im.x0), !.y0 = Max(a.y0, im.y0),
                    !.x1 = Min(a.x1, im.x1), !.y1 = Min(a.y1, im.y1)]
    ELSE im

\* Sample i of component k's plane, as the engine decoded it (i32).
PlaneSample(im, k, i) == 250 + 3 * k + i

(***************************************************************************)
(* Image accessors.                                                        *)
(***************************************************************************)
Image_width(im) == im.x1 - im.x0

Image_height(im) == im.y1 - im.y0

Image_components(im) == im.comps

\* As Image_factor, with the configured reduction taken for the applied one.
Image_factor_requested(im) == inner_params.cp_reduce

\* The factor of the first component.
Image_factor(im) == im.comps[1].factor

(***************************************************************************)
(* What decode returns.                                                    *)
(***************************************************************************)
NoResult == [tag |-> "None"]

\* err::Error::boxed(message): every error of decode is the Boxed variant
\* around a message; prec is the precision a formatted message carries.
Boxed(message, prec) ==
    [tag |-> "Err", variant |-> "Boxed", message |-> message, prec |-> prec]

Ok(buffer, w, h, num_bands, precision) ==
    [tag |-> "Ok", buffer |-> buffer, width |-> w, height |-> h,
     num_bands |-> num_bands, precision |-> precision]

\* A panic unwinds out of decode: the caller gets no value.
Panicked == [tag |-> "Panic"]

\* As is_failure, with the answer of opj_set_decode_area ignored.
is_failure_area_ignored(stage, ret) ==
    stage # "RegionRestrict" /\ ret # OPJ_TRUE

\* A call into the engine failed: `!= 1`.
is_failure(stage, ret) == ret # OPJ_TRUE

\* As stage_message, with the header's message also used for opj_decode.
stage_message_reused(stage) ==
    CASE stage = "Configure"      -> "Setting up the decoder failed."
      [] stage = "ThreadHint"     -> "Could not set specified threads."
      [] stage = "HeaderRead"     -> "Failed to read header."
      [] stage = "RegionRestrict" -> "Setting up the decoding area failed."
      [] stage = "FullDecode"     -> "Failed to read header."

\* The message decode returns for a failed engine call.
stage_message(stage) ==
    CASE stage = "Configure"      -> "Setting up the decoder failed."
      [] stage = "ThreadHint"     -> "Could not set specified threads."
      [] stage = "HeaderRead"     -> "Failed to read header."
      [] stage = "RegionRestrict" -> "Setting up the decoding area failed."
      [] stage = "FullDecode"     -> "Failed to read image."

\* As scope_exit, with the descriptor forgotten.
scope_exit_leaking(imgp) == <<"codec", "stream">>

\* What the end of decode's scope destroys, in order: the locals first
\* (img, once declared: opj_image_destroy, which frees nothing for a null
\* pointer), then the arguments codec (opj_destroy_codec) and self
\* (opj_stream_destroy).
scope_exit(imgp) ==
    IF imgp = "ptr" THEN <<"image", "codec", "stream">>
    ELSE <<"codec", "stream">>

\* The stage after Configure, and the one after HeaderRead.
after_setup(p) == IF p.num_threads # None THEN "threads" ELSE "header"

\* As after_header, with opj_decode left out as well.
after_header_undecoded(p) == "dims"

\* As after_header, with the decode region never applied.
after_header_unrestricted(p) == "decode"

after_header(p) == IF p.decoding_area # None THEN "area" ELSE "decode"

\* A stage that ran, with how it ended: "ok", "failed" or "panicked".
Call(stage, outcome) == [stage |-> stage, outcome |-> outcome]

\* How an engine call that returned ret ended.
Returned(ret) == IF ret = OPJ_TRUE THEN "ok" ELSE "failed"

(***************************************************************************)
(* BandPack: lines 246-332.                                                *)
(***************************************************************************)
as_u8(x) == x % 256

as_u16(x) == x % 65536

\* u16::to_ne_bytes: the byte order of the target.
to_ne_bytes(v, little_endian) ==
    IF little_endian THEN <<v % 256, v \div 256>> ELSE <<v \div 256, v % 256>>

\* std::slice::from_raw_parts(comp.data, n): the first n samples of plane k.
from_raw_parts(im, k, n) == [i \in 1..n |-> PlaneSample(im, k, i)]

\* One component, 8 bits: each sample cast to u8.
pack_gray8(im, n) ==
    LET r == from_raw_parts(im, 1, n) IN [i \in 1..n |-> as_u8(r[i])]

\* One component, 16 bits: each sample cast to u16, two bytes each.
pack_gray16(im, n, little_endian) ==
    LET r == from_raw_parts(im, 1, n)
    IN  [j \in 1..(2 * n) |->
            to_ne_bytes(as_u16(r[(j + 1) \div 2]), little_endian)[((j - 1) % 2) + 1]]

\* Three or four components: zip the planes, push each pixel's bands.
pack_interleaved(im, n, bands) ==
    LET planes == [k \in 1..bands |-> from_raw_parts(im, k, n)]
    IN  [j \in 1..(n * bands) |->
            as_u8(planes[((j - 1) % bands) + 1][((j - 1) \div bands) + 1])]

\* As match_arm, with two components packed as one and more than four as
\* four.
match_arm_truncating(n) == IF n = 2 THEN 1 ELSE IF n > 4 THEN 4 ELSE n

\* The arm of the match on img.components() that a slice of n components
\* takes: the patterns [r], [r, g, b] and [r, g, b, a] match slices of
\* exactly 1, 3 and 4 components; 0 is the arm `_`.
match_arm(n) == IF n \in {1, 3, 4} THEN n ELSE 0

\* The match on img.components(), with the build's overflow checks.
pack(im, w, h, checks, little_endian) ==
    LET comps == Image_components(im)
        n == wrapping_mul(w, h)
        panics(bands) ==
            checks /\ (mul_overflows(w, h) \/ (bands > 1 /\ mul_overflows(n, bands)))
        arm == match_arm(Len(comps))
    IN  CASE arm = 1 ->
               IF comps[1].prec = 8
               THEN IF panics(1) THEN Panicked
                    ELSE Ok(pack_gray8(im, n), w, h, 1, 8)
               ELSE IF comps[1].prec = 16
               THEN IF panics(1) THEN Panicked
                    ELSE Ok(pack_gray16(im, n, little_endian), w, h, 1, 16)
               ELSE Boxed("Unsupported precision for grayscale: {}", Some(comps[1].prec))
          [] arm = 3 ->
               IF comps[1].prec # 8
               THEN Boxed("Unsupported precision for RGB: {}", Some(comps[1].prec))
               ELSE IF panics(3) THEN Panicked
               ELSE Ok(pack_interleaved(im, n, 3), w, h, 3, 8)
          [] arm = 4 ->
               IF comps[1].prec # 8
               THEN Boxed("Unsupported precision for RGBA: {}", Some(comps[1].prec))
               ELSE IF panics(4) THEN Panicked
               ELSE Ok(pack_interleaved(im, n, 4), w, h, 4, 8)
          [] OTHER ->
               Boxed("Operation not supported for that number of components", None)

(***************************************************************************)
(* The Stream: lines 145-192.  from_bytes boxes a Cursor over the bytes    *)
(* and hands the box to the engine's stream together with the read and     *)
(* the release callback; Stream::drop is opj_stream_destroy.               *)
(***************************************************************************)
\* Cursor::new(buf): the position starts at 0.
Cursor_new == 0

\* As remaining_slice, with the position ignored.
remaining_slice_rewound(b, pos) == b

\* Cursor::read, first half: the bytes of b from the position on.
remaining_slice(b, pos) == SubSeq(b, Min(pos, Len(b)) + 1, Len(b))

\* Cursor::read, second half (the read of a slice): as many of the
\* remaining bytes as dst has room for, in order; the result is always Ok.
Cursor_read(b, pos, p_nb_bytes) ==
    LET rem == remaining_slice(b, pos)
        amt == Min(p_nb_bytes, Len(rem))
    IN  [tag |-> "Ok", bytes |-> SubSeq(rem, 1, amt), n |-> amt]

\* n.expect(..): the count of an Ok; an Err would panic.
expect(res) == IF res.tag = "Ok" THEN "returned" ELSE "panicked"

\* opj_stream_destroy on a stream whose release callback has run n times:
\* the engine calls the callback registered with the user data once.
opj_stream_destroy(n) == n + 1

\* The drops ds run, in order: destroying the stream runs the release
\* callback (opj_stream_free_user_data_fn, which frees the boxed cursor).
Drops(ds) ==
    /\ destroyed' = destroyed \o ds
    /\ frees' = IF \E i \in DOMAIN ds : ds[i] = "stream"
                THEN opj_stream_destroy(frees) ELSE frees

(***************************************************************************)
(* The decode call, step by step.                                          *)
(***************************************************************************)
Init ==
    /\ pc = "setup"
    /\ overflow_checks \in BOOLEAN
    /\ params \in ParamsSpace
    /\ inner_params = [cp_reduce |-> 0, cp_layer |-> 0]
    /\ img = "undeclared"
    /\ image = NoImage
    /\ calls = <<>>
    /\ width = 0
    /\ height = 0
    /\ factor = 0
    /\ result = NoResult
    /\ destroyed = <<>>
    /\ consumer = "decode"
    /\ buf = <<>>
    /\ cur = Cursor_new
    /\ delivered = <<>>
    /\ last_read = None
    /\ frees = 0
    /\ built = <<>>

\* decode leaves with res (a return, or a panic unwinding): the scope ends
\* and the caller has the outcome.
Leave(res, imgp) ==
    /\ result' = res
    /\ Drops(scope_exit(imgp))
    /\ pc' = "done"

\* decode goes on to the stage at position next.
Continue(next) ==
    /\ pc' = next
    /\ UNCHANGED <<result, destroyed, frees>>

\* Lines 197-209: the parameters go into the engine's, then opj_setup_decoder.
Configure ==
    /\ pc = "setup"
    /\ inner_params' =
          [cp_reduce |-> IF params.reduce_factor # None
                         THEN unwrap(params.reduce_factor)
                         ELSE inner_params.cp_reduce,
           cp_layer  |-> IF params.quality_layers # None
                         THEN unwrap(params.quality_layers)
                         ELSE inner_params.cp_layer]
    /\ \E ret \in OPJ_BOOL :
          /\ calls' = Append(calls, Call("Configure", Returned(ret)))
          /\ IF is_failure("Configure", ret)
             THEN Leave(Boxed(stage_message("Configure"), None), img)
             ELSE Continue(after_setup(params))
    /\ UNCHANGED <<overflow_checks, params, img, image, width, height, factor>>
    /\ UNCHANGED held

\* Lines 211-215: opj_codec_set_threads, when a thread count is configured.
ThreadHint ==
    /\ pc = "threads"
    /\ \E ret \in OPJ_BOOL :
          /\ calls' = Append(calls, Call("ThreadHint", Returned(ret)))
          /\ IF is_failure("ThreadHint", ret)
             THEN Leave(Boxed(stage_message("ThreadHint"), None), img)
             ELSE Continue("header")
    /\ UNCHANGED <<overflow_checks, params, inner_params, img, image, width,
                   height, factor>>
    /\ UNCHANGED held

\* What opj_read_header leaves behind img.0 when it returns ret: on success
\* a descriptor with bounds and components, each component carrying the
\* configured reduction; on failure nothing, or an empty descriptor.
read_header_images(ret) ==
    IF ret = OPJ_TRUE
    THEN { [x0 |-> g.x0, y0 |-> g.y0, x1 |-> g.x1, y1 |-> g.y1,
            comps |-> [k \in 1..Len(lay) |->
                          [prec |-> lay[k], factor |-> inner_params.cp_reduce]],
            decoded |-> FALSE, ptr |-> "ptr"] : g \in Geometries, lay \in Layouts }
    ELSE { [x0 |-> 0, y0 |-> 0, x1 |-> 0, y1 |-> 0, comps |-> <<>>,
            decoded |-> FALSE, ptr |-> p] : p \in {"null", "ptr"} }

\* Lines 217-221: Image::new(), then opj_read_header.
HeaderRead ==
    /\ pc = "header"
    /\ \E ret \in OPJ_BOOL :
          /\ calls' = Append(calls, Call("HeaderRead", Returned(ret)))
          /\ \E im \in read_header_images(ret) :
                /\ img' = im.ptr
                /\ image' = [f \in DOMAIN NoImage |-> im[f]]
                /\ IF is_failure("HeaderRead", ret)
                   THEN Leave(Boxed(stage_message("HeaderRead"), None), im.ptr)
                   ELSE Continue(after_header(params))
    /\ UNCHANGED <<overflow_checks, params, inner_params, width, height, factor>>
    /\ UNCHANGED held

\* Lines 223-227: opj_set_decode_area, when a decode region is configured.
RegionRestrict ==
    /\ pc = "area"
    /\ \E ret \in set_decode_area_returns(unwrap(params.decoding_area), image) :
          /\ calls' = Append(calls, Call("RegionRestrict", Returned(ret)))
          /\ image' = IF ret = OPJ_TRUE
                      THEN set_decode_area_bounds(unwrap(params.decoding_area), image)
                      ELSE image
          /\ IF is_failure("RegionRestrict", ret)
             THEN Leave(Boxed(stage_message("RegionRestrict"), None), img)
             ELSE Continue("decode")
    /\ UNCHANGED <<overflow_checks, params, inner_params, img, width, height,
                   factor>>
    /\ UNCHANGED held

\* The decodes the model follows: those whose packed planes stay small.
Materializable(im, f) ==
    wrapping_mul(value_for_discard_level(Image_width(im), f),
                 value_for_discard_level(Image_height(im), f))
      <= MaxExtent * MaxExtent

\* The descriptor after a successful opj_decode that applied factor f.
decoded_image(im, f) ==
    [im EXCEPT !.comps = [k \in DOMAIN im.comps |-> [im.comps[k] EXCEPT !.factor = f]],
               !.decoded = TRUE]

\* Lines 229-231: opj_decode.
FullDecode ==
    /\ pc = "decode"
    /\ \E ret \in OPJ_BOOL :
          /\ calls' = Append(calls, Call("FullDecode", Returned(ret)))
          /\ IF ret = OPJ_TRUE
             THEN \E f \in Factors :
                     /\ Materializable(image, f)
                     /\ image' = decoded_image(image, f)
             ELSE image' = image
          /\ IF is_failure("FullDecode", ret)
             THEN Leave(Boxed(stage_message("FullDecode"), None), img)
             ELSE Continue("dims")
    /\ UNCHANGED <<overflow_checks, params, inner_params, img, width, height,
                   factor>>
    /\ UNCHANGED held

\* Lines 237-242: the output dimensions from the bounds and the factor.
DimensionCompute ==
    /\ pc = "dims"
    /\ LET f == Image_factor(image)
       IN  IF overflow_checks /\ shl_overflows(f)
           THEN /\ calls' = Append(calls, Call("DimensionCompute", "panicked"))
                /\ Leave(Panicked, img)
                /\ UNCHANGED <<width, height, factor>>
           ELSE /\ width' = value_for_discard_level(Image_width(image), f)
                /\ height' = value_for_discard_level(Image_height(image), f)
                /\ factor' = f
                /\ calls' = Append(calls, Call("DimensionCompute", "ok"))
                /\ Continue("pack")
    /\ UNCHANGED <<overflow_checks, params, inner_params, img, image>>
    /\ UNCHANGED held

\* Lines 244-341: the planes are packed and the ImageBuffer is built.
BandPack ==
    /\ pc = "pack"
    /\ \E little_endian \in BOOLEAN :
          LET res == pack(image, width, height, overflow_checks, little_endian)
          IN  /\ calls' = Append(calls, Call("BandPack",
                            CASE res.tag = "Ok"  -> "ok"
                              [] res.tag = "Err" -> "failed"
                              [] OTHER           -> "panicked"))
              /\ Leave(res, img)
    /\ UNCHANGED <<overflow_checks, params, inner_params, img, image, width,
                   height, factor>>
    /\ UNCHANGED held

Next ==
    \/ Configure
    \/ ThreadHint
    \/ HeaderRead
    \/ RegionRestrict
    \/ FullDecode
    \/ DimensionCompute
    \/ BandPack

Spec == Init /\ [][Next]_vars

(***************************************************************************)
(* The life of a Stream: made by from_bytes, then dropped unused, or       *)
(* moved into decode, or moved into Info::build.  While the engine is in   *)
(* a call that was handed the stream (opj_read_header, opj_decode) it      *)
(* pulls bytes through the read callback.                                  *)
(***************************************************************************)
\* The byte sources: 1, 2, .. n, so that every byte tells its place.
Sources == { [i \in 1..n |-> i] : n \in 0..MaxLen }

\* The parameters of the decodes a stream is followed through: with and
\* without a thread count and a decode region.
StreamParams ==
    { p \in ParamsSpace :
        /\ p.reduce_factor = None
        /\ p.quality_layers = None
        /\ p.decoding_area \in {None, Some(Area(0, 0, 2, 2))} }

\* Lines 159-177: after from_bytes the cursor is boxed at position 0 and
\* the engine's stream holds it with both callbacks; nothing has run yet.
StreamInit ==
    /\ pc = "created"
    /\ consumer = "none"
    /\ buf \in Sources
    /\ cur = Cursor_new
    /\ delivered = <<>>
    /\ last_read = None
    /\ frees = 0
    /\ built = <<>>
    /\ overflow_checks \in BOOLEAN
    /\ params \in StreamParams
    /\ inner_params = [cp_reduce |-> 0, cp_layer |-> 0]
    /\ img = "undeclared"
    /\ image = NoImage
    /\ calls = <<>>
    /\ width = 0
    /\ height = 0
    /\ factor = 0
    /\ result = NoResult
    /\ destroyed = <<>>

\* The locals and arguments of decode and of Info::build.
frame == <<overflow_checks, params, inner_params, img, image, calls, width,
           height, factor>>

\* As Stream_drop, with the stream forgotten instead of dropped.
Stream_forget ==
    /\ pc = "created"
    /\ consumer' = "dropped"
    /\ pc' = "done"
    /\ UNCHANGED <<frame, result, destroyed, buf, cur, delivered, last_read,
                   frees, built>>

\* Lines 151-156: the stream goes out of scope unused.
Stream_drop ==
    /\ pc = "created"
    /\ consumer' = "dropped"
    /\ Drops(<<"stream">>)
    /\ pc' = "done"
    /\ UNCHANGED <<frame, result, buf, cur, delivered, last_read, built>>

\* Line 195: the stream is moved into decode.
Stream_decode ==
    /\ pc = "created"
    /\ consumer' = "decode"
    /\ pc' = "setup"
    /\ UNCHANGED <<frame, result, destroyed, buf, cur, delivered, last_read,
                   frees, built>>

\* Line 396: the stream is moved into Info::build.
Info_build ==
    /\ pc = "created"
    /\ consumer' = "Info::build"
    /\ pc' = "info_setup"
    /\ UNCHANGED <<frame, result, destroyed, buf, cur, delivered, last_read,
                   frees, built>>

\* The positions at which the engine is in a call that was handed the
\* stream: opj_read_header (lines 219 and 407) and opj_decode (line 229).
EngineHoldsStream == {"header", "decode", "info_header"}

\* Lines 179-188: the engine asks for p_nb_bytes bytes.
opj_stream_read_fn ==
    /\ pc \in EngineHoldsStream
    /\ \E p_nb_bytes \in 0..MaxRequest :
          LET n == Cursor_read(buf, cur, p_nb_bytes)
          IN  /\ cur' = cur + n.n
              /\ delivered' = delivered \o n.bytes
              /\ last_read' = Some([requested |-> p_nb_bytes,
                                    returned  |-> n.n,
                                    bytes     |-> n.bytes,
                                    outcome   |-> expect(n),
                                    released  |-> frees > 0])
    /\ UNCHANGED <<frame, pc, result, destroyed, consumer, buf, frees, built>>

\* The stream's life does not depend on the picture: of the images a
\* header can announce, one small and the one whose square overflows are
\* followed, each with a single component.
Sampled(im) ==
    \/ im.comps = <<>>
    \/ /\ Len(im.comps) = 1
       /\ im.x0 = 0
       /\ Image_width(im) \in {1, 65536}
       /\ Image_height(im) \in {1, 65536}

SampledHeaderRead == HeaderRead /\ Sampled(image')

\* What Info::build returns on success.
OkInfo(w, h) == [tag |-> "Ok", width |-> w, height |-> h]

\* The message Info::build returns for a failed engine call.
info_message(stage) ==
    CASE stage = "Configure"  -> "Setting up the decoder failed."
      [] stage = "HeaderRead" -> "Failed to read header."

\* As info_scope_exit, with the codec forgotten.
info_scope_exit_leaking(imgp) ==
    IF imgp = "ptr" THEN <<"image", "stream">> ELSE <<"stream">>

\* What the end of Info::build's scope destroys, in order: the local img
\* (once declared; nothing is freed for a null pointer), then the
\* arguments stream and codec.
info_scope_exit(imgp) ==
    IF imgp = "ptr" THEN <<"image", "stream", "codec">>
    ELSE <<"stream", "codec">>

\* Info::build leaves with res.
InfoLeave(res, imgp) ==
    /\ result' = res
    /\ Drops(info_scope_exit(imgp))
    /\ pc' = "done"

\* Lines 397-403: default parameters with the dump flag, opj_setup_decoder.
Info_setup ==
    /\ pc = "info_setup"
    /\ \E ret \in OPJ_BOOL :
          /\ calls' = Append(calls, Call("Configure", Returned(ret)))
          /\ IF is_failure("Configure", ret)
             THEN InfoLeave(Boxed(info_message("Configure"), None), img)
             ELSE /\ pc' = "info_header"
                  /\ UNCHANGED <<result, destroyed, frees>>
    /\ UNCHANGED <<overflow_checks, params, inner_params, img, image, width,
                   height, factor>>
    /\ UNCHANGED held

\* Lines 405-414: Image::new(), opj_read_header, and the extents of the
\* bounds it read.
Info_header ==
    /\ pc = "info_header"
    /\ \E ret \in OPJ_BOOL :
          /\ calls' = Append(calls, Call("HeaderRead", Returned(ret)))
          /\ \E im \in read_header_images(ret) :
                /\ img' = im.ptr
                /\ image' = [f \in DOMAIN NoImage |-> im[f]]
                /\ IF is_failure("HeaderRead", ret)
                   THEN InfoLeave(Boxed(info_message("HeaderRead"), None), im.ptr)
                   ELSE InfoLeave(OkInfo(Image_width(im), Image_height(im)),
                                  im.ptr)
    /\ UNCHANGED <<overflow_checks, params, inner_params, width, height, factor>>
    /\ UNCHANGED held

StreamNext ==
    \/ Stream_drop
    \/ Stream_decode
    \/ Info_build
    \/ opj_stream_read_fn
    \/ Configure
    \/ ThreadHint
    \/ SampledHeaderRead
    \/ RegionRestrict
    \/ FullDecode
    \/ DimensionCompute
    \/ BandPack
    \/ Info_setup
    \/ Info_header

SpecStream == StreamInit /\ [][StreamNext]_vars

(***************************************************************************)
(* The DecodeParams builder: lines 94-131.  Each with_* takes the value,   *)
(* sets one field to Some(argument) and gives the value back.              *)
(***************************************************************************)
\* #[derive(Default)]: every field None.
DecodeParams_default ==
    [ default_color_space |-> None, reduce_factor |-> None,
      decoding_area |-> None, quality_layers |-> None, num_threads |-> None ]

with_default_color_space(self, color_space) ==
    [self EXCEPT !.default_color_space = Some(color_space)]

with_reduce_factor(self, reduce_factor) ==
    [self EXCEPT !.reduce_factor = Some(reduce_factor)]

\* As with_num_threads, with the reduce factor reset on the way.
with_num_threads_clobbering(self, num) ==
    [self EXCEPT !.num_threads = Some(num), !.reduce_factor = None]

with_num_threads(self, num) == [self EXCEPT !.num_threads = Some(num)]

with_decoding_area(self, x0, y0, x1, y1) ==
    [self EXCEPT !.decoding_area = Some(Area(x0, y0, x1, y1))]

with_quality_layers(self, quality_layers) ==
    [self EXCEPT !.quality_layers = Some(quality_layers)]

\* Arguments the calls are made with: two of each type.
ColorSpaces == {"OPJ_CLRSPC_SRGB", "OPJ_CLRSPC_GRAY"}
ReduceFactors == {0, 1}
ThreadCounts == {-1, 2}
QualityLayers == {1, 2}

\* A with_* call, as the builder's history keeps it.
Built(field, value) == [field |-> field, value |-> value]

BuilderInit ==
    /\ pc = "building"
    /\ params = DecodeParams_default
    /\ built = <<>>
    /\ overflow_checks = FALSE
    /\ inner_params = [cp_reduce |-> 0, cp_layer |-> 0]
    /\ img = "undeclared"
    /\ image = NoImage
    /\ calls = <<>>
    /\ width = 0
    /\ height = 0
    /\ factor = 0
    /\ result = NoResult
    /\ destroyed = <<>>
    /\ consumer = "none"
    /\ buf = <<>>
    /\ cur = Cursor_new
    /\ delivered = <<>>
    /\ last_read = None
    /\ frees = 0

\* What the builder does not touch.
unbuilt == <<pc, overflow_checks, inner_params, img, image, calls, width,
             height, factor, result, destroyed, consumer, buf, cur,
             delivered, last_read, frees>>

Call_with_default_color_space ==
    /\ Len(built) < MaxCalls
    /\ \E color_space \in ColorSpaces :
          /\ params' = with_default_color_space(params, color_space)
          /\ built' = Append(built, Built("default_color_space", Some(color_space)))
    /\ UNCHANGED unbuilt

Call_with_reduce_factor ==
    /\ Len(built) < MaxCalls
    /\ \E reduce_factor \in ReduceFactors :
          /\ params' = with_reduce_factor(params, reduce_factor)
          /\ built' = Append(built, Built("reduce_factor", Some(reduce_factor)))
    /\ UNCHANGED unbuilt

Call_with_num_threads ==
    /\ Len(built) < MaxCalls
    /\ \E num \in ThreadCounts :
          /\ params' = with_num_threads(params, num)
          /\ built' = Append(built, Built("num_threads", Some(num)))
    /\ UNCHANGED unbuilt

Call_with_decoding_area ==
    /\ Len(built) < MaxCalls
    /\ \E a \in {Area(0, 0, 0, 0), Area(0, 0, 2, 2)} :
          /\ params' = with_decoding_area(params, a.x0, a.y0, a.x1, a.y1)
          /\ built' = Append(built, Built("decoding_area", Some(a)))
    /\ UNCHANGED unbuilt

Call_with_quality_layers ==
    /\ Len(built) < MaxCalls
    /\ \E quality_layers \in QualityLayers :
          /\ params' = with_quality_layers(params, quality_layers)
          /\ built' = Append(built, Built("quality_layers", Some(quality_layers)))
    /\ UNCHANGED unbuilt

BuilderNext ==
    \/ Call_with_default_color_space
    \/ Call_with_reduce_factor
    \/ Call_with_num_threads
    \/ Call_with_decoding_area
    \/ Call_with_quality_layers

SpecBuilder == BuilderInit /\ [][BuilderNext]_vars

(***************************************************************************)
(* Properties.                                                             *)
(***************************************************************************)
Count(seq, x) == Cardinality({i \in DOMAIN seq : seq[i] = x})

Ran(stage) == \E i \in DOMAIN calls : calls[i].stage = stage

LastCall == calls[Len(calls)]

\* The error kind a message of decode stands for.
KindOfMessage(m) ==
    CASE m = "Setting up the decoder failed."       -> "DecoderSetupFailed"
      [] m = "Could not set specified threads."     -> "ThreadConfigFailed"
      [] m = "Failed to read header."               -> "HeaderReadFailed"
      [] m = "Setting up the decoding area failed." -> "InvalidDecodeRegion"
      [] m = "Failed to read image."                -> "DecodeFailed"
      [] m \in { "Unsupported precision for grayscale: {}",
                 "Unsupported precision for RGB: {}",
                 "Unsupported precision for RGBA: {}",
                 "Operation not supported for that number of components" }
                                                    -> "UnsupportedComponentLayout"
      [] OTHER                                      -> "Unknown"

\* The error kind each stage is to report.
KindOfStage(stage) ==
    CASE stage = "Configure"      -> "DecoderSetupFailed"
      [] stage = "ThreadHint"     -> "ThreadConfigFailed"
      [] stage = "HeaderRead"     -> "HeaderReadFailed"
      [] stage = "RegionRestrict" -> "InvalidDecodeRegion"
      [] stage = "FullDecode"     -> "DecodeFailed"
      [] stage = "BandPack"       -> "UnsupportedComponentLayout"
      [] OTHER                    -> "None"

\* C1: whatever the stage decode ends at, when the caller has the outcome
\* the stream and the codec have each been destroyed exactly once, and so
\* has the image descriptor if the engine created one; nothing is ever
\* destroyed twice.
C1_DestroyedExactlyOnce ==
    /\ \A x \in {"stream", "codec", "image"} : Count(destroyed, x) <= 1
    /\ pc = "done" =>
          /\ Count(destroyed, "stream") = 1
          /\ Count(destroyed, "codec") = 1
          /\ Count(destroyed, "image") = (IF img = "ptr" THEN 1 ELSE 0)
    /\ pc # "done" => destroyed = <<>>

\* A decode refused at RegionRestrict has released the descriptor, the
\* codec and the stream.
C1_Witness ==
    /\ pc = "done"
    /\ result.tag = "Err"
    /\ LastCall.stage = "RegionRestrict"
    /\ destroyed = <<"image", "codec", "stream">>

\* The stages a decode with parameters p goes through, in order.
Plan(p) ==
    <<"Configure">>
      \o (IF p.num_threads # None THEN <<"ThreadHint">> ELSE <<>>)
      \o <<"HeaderRead">>
      \o (IF p.decoding_area # None THEN <<"RegionRestrict">> ELSE <<>>)
      \o <<"FullDecode", "DimensionCompute", "BandPack">>

\* C2: the stages run in the fixed order, each at most once and only after
\* every earlier one has succeeded; only ThreadHint (no thread count) and
\* RegionRestrict (no decode region) are skipped.
C2_StageOrder ==
    /\ Len(calls) <= Len(Plan(params))
    /\ \A i \in DOMAIN calls : calls[i].stage = Plan(params)[i]
    /\ \A i \in 1..(Len(calls) - 1) : calls[i].outcome = "ok"

\* A successful decode that ran all seven stages.
C2_Witness ==
    /\ pc = "done"
    /\ result.tag = "Ok"
    /\ Len(calls) = 7

\* C3: a failed stage ends the decode at once with one error whose kind is
\* that of the failing stage, which is the first that failed; the messages
\* of different stages differ, and an error carries no buffer.
C3_FirstFailureReported ==
    /\ result.tag = "Err" =>
          /\ pc = "done"
          /\ calls # <<>>
          /\ LastCall.outcome = "failed"
          /\ \A i \in 1..(Len(calls) - 1) : calls[i].outcome = "ok"
          /\ result.variant = "Boxed"
          /\ KindOfMessage(result.message) = KindOfStage(LastCall.stage)
          /\ "buffer" \notin DOMAIN result
    /\ \A i \in DOMAIN calls :
          calls[i].outcome = "failed" =>
             /\ i = Len(calls)
             /\ pc = "done"
             /\ result.tag = "Err"

\* A decode that failed at FullDecode and says so.
C3_Witness ==
    /\ pc = "done"
    /\ result.tag = "Err"
    /\ LastCall.stage = "FullDecode"
    /\ KindOfMessage(result.message) = "DecodeFailed"

Precs(im) == {im.comps[k].prec : k \in DOMAIN im.comps}

Unsupported ==
    /\ result.tag = "Err"
    /\ KindOfMessage(result.message) = "UnsupportedComponentLayout"
    /\ "buffer" \notin DOMAIN result

\* C4: a decoded image of 3 or 4 components whose precisions are not all
\* the same fails with UnsupportedComponentLayout and no buffer is returned.
C4_MixedPrecisionRejected ==
    ( /\ pc = "done"
      /\ Ran("BandPack")
      /\ LastCall.outcome # "panicked"
      /\ Len(image.comps) \in {3, 4}
      /\ Cardinality(Precs(image)) > 1 )
    => Unsupported

\* p is the product a * b * c, without forming it.
IsProduct(p, a, b) ==
    IF a = 0 \/ b = 0 THEN p = 0 ELSE p % a = 0 /\ p \div a = b

IsProduct3(p, a, b, c) ==
    IF c = 0 THEN p = 0 ELSE p % c = 0 /\ IsProduct(p \div c, a, b)

\* C5: a successful decode of 1, 3 or 4 components of 8 bits returns a
\* buffer of exactly width * height * num_bands bytes, for the width,
\* height and num_bands it returns, with or without a decode region and a
\* reduce factor.
C5_BufferLength ==
    ( /\ result.tag = "Ok"
      /\ Len(image.comps) \in {1, 3, 4}
      /\ Precs(image) = {8} )
    => IsProduct3(Len(result.buffer), result.width, result.height,
                  result.num_bands)

\* ceil(e / 2^f): the quotient, plus one when the remainder is not zero.
\* Every extent of the model is below 2^31, so from f = 31 on the quotient
\* is 0 and the remainder e.
CeilDivPow2(e, f) ==
    IF f > 30 THEN (IF e > 0 THEN 1 ELSE 0)
    ELSE (e \div Pow2(f)) + (IF e % Pow2(f) # 0 THEN 1 ELSE 0)

\* C6: the returned width and height are ceil((x1 - x0) / 2^factor) and
\* ceil((y1 - y0) / 2^factor) of the image bounds, for every extent and
\* every applied factor.
C6_CeilingDimensions ==
    result.tag = "Ok" =>
       /\ result.width =
             CeilDivPow2(image.x1 - image.x0, image.comps[1].factor)
       /\ result.height =
             CeilDivPow2(image.y1 - image.y0, image.comps[1].factor)

\* C7: the factor behind the output dimensions is the one the engine left
\* on the first component of the decoded image, whatever reduce_factor the
\* parameters asked for.
C7_EngineFactorUsed ==
    /\ pc = "pack" =>
          /\ image.decoded
          /\ factor = image.comps[1].factor
          /\ width = value_for_discard_level(image.x1 - image.x0,
                                             image.comps[1].factor)
          /\ height = value_for_discard_level(image.y1 - image.y0,
                                              image.comps[1].factor)
    /\ result.tag = "Ok" =>
          /\ image.decoded
          /\ result.width = value_for_discard_level(image.x1 - image.x0,
                                                    image.comps[1].factor)
          /\ result.height = value_for_discard_level(image.y1 - image.y0,
                                                     image.comps[1].factor)

\* A reduce_factor of 1 was asked for, the engine applied none, and the
\* returned width is the unreduced one.
C7_Witness ==
    /\ result.tag = "Ok"
    /\ params.reduce_factor = Some(1)
    /\ image.comps[1].factor = 0
    /\ result.width = image.x1 - image.x0
    /\ result.width # value_for_discard_level(image.x1 - image.x0, 1)

\* C8: a decoded image whose component count is not 1, 3 or 4 fails with
\* UnsupportedComponentLayout and returns no buffer; a returned buffer has
\* as many bands as the image has components.
C8_UnsupportedComponentCount ==
    /\ ( /\ Ran("BandPack")
         /\ Len(image.comps) \notin {1, 3, 4} )
       => Unsupported
    /\ result.tag = "Ok" =>
          /\ result.num_bands = Len(image.comps)
          /\ result.num_bands \in {1, 3, 4}

\* A decoded two-component 16-bit image was refused at BandPack.
C8_Witness ==
    /\ pc = "done"
    /\ Ran("BandPack")
    /\ Len(image.comps) = 2
    /\ Precs(image) = {16}
    /\ Unsupported

\* C9: with a degenerate decode region (x1 <= x0 or y1 <= y0, the all-zero
\* box included) a decode that gets to RegionRestrict fails there with
\* InvalidDecodeRegion, and FullDecode never runs.
C9_DegenerateRegionRejected ==
    ( /\ pc = "done"
      /\ params.decoding_area # None
      /\ ~Proper(unwrap(params.decoding_area))
      /\ Ran("RegionRestrict") )
    => /\ result.tag = "Err"
       /\ KindOfMessage(result.message) = "InvalidDecodeRegion"
       /\ ~Ran("FullDecode")

\* C10: with a decode region (a proper box) entirely outside the image
\* bounds read from the header, decode fails with InvalidDecodeRegion,
\* FullDecode never runs, and the stream, the codec and the descriptor are
\* released.
C10_OutsideRegionRejected ==
    ( /\ params.decoding_area # None
      /\ Ran("RegionRestrict")
      /\ OutsideBounds(unwrap(params.decoding_area), image) )
    => /\ pc = "done"
       /\ result.tag = "Err"
       /\ KindOfMessage(result.message) = "InvalidDecodeRegion"
       /\ ~Ran("FullDecode")
       /\ destroyed = <<"image", "codec", "stream">>

\* A region left of and above the image was refused after the header was
\* read.
C10_Witness ==
    /\ pc = "done"
    /\ params.decoding_area = Some(Area(-2, -2, -1, -1))
    /\ Ran("RegionRestrict")
    /\ image.x1 > image.x0
    /\ result.tag = "Err"
    /\ destroyed = <<"image", "codec", "stream">>

C12_ReadDeliversNextBytes ==
    /\ Len(delivered) <= Len(buf)
    /\ cur = Len(delivered)
    /\ \A i \in DOMAIN delivered : delivered[i] = buf[i]
    /\ \A r \in last_read :
          LET before == Len(delivered) - r.returned
              remaining == Len(buf) - before
          IN  /\ r.outcome = "returned"
              /\ r.returned <= r.requested
              /\ r.returned = Min(r.requested, remaining)
              /\ Len(r.bytes) = r.returned
              /\ \A j \in 1..r.returned : r.bytes[j] = buf[before + j]
              /\ remaining = 0 => r.returned = 0

\* Two bytes were asked for when one was left: one came, the last.
C12_Witness ==
    /\ Len(buf) = 3
    /\ delivered = buf
    /\ \E r \in last_read :
          /\ r.requested = 2
          /\ r.returned = 1
          /\ r.bytes = <<buf[3]>>

Fields == DOMAIN DecodeParams_default

\* The argument of the latest call for a field, None if there was none.
LastArgument(field) ==
    LET at == {i \in DOMAIN built : built[i].field = field}
    IN  IF at = {} THEN None
        ELSE built[CHOOSE i \in at : \A j \in at : j <= i].value

\* C13: after any sequence of with_* calls from the default, every field
\* holds the argument of the latest call for it and is absent if there was
\* none; each call changes its own field and no other; and the outcome of
\* a call is always a DecodeParams, never a failure.
C13_LastWriteWins ==
    /\ [](/\ DOMAIN params = Fields
          /\ \A f \in Fields : params[f] = LastArgument(f))
    /\ [][ /\ Len(built') = Len(built) + 1
           /\ LET call == built'[Len(built')]
              IN  /\ params'[call.field] = call.value
                  /\ \A f \in Fields \ {call.field} : params'[f] = params[f]
         ]_vars

\* The reduce factor was set twice and the thread count once in between:
\* the second reduce factor stands, the thread count too.
C13_Witness ==
    /\ built = << Built("reduce_factor", Some(0)), Built("num_threads", Some(2)),
                  Built("reduce_factor", Some(1)) >>
    /\ params.reduce_factor = Some(1)
    /\ params.num_threads = Some(2)
    /\ params.decoding_area = None

\* Byte j of an interleaved buffer of nb bands is the low 8 bits of
\* sample (j - 1) \div nb of component (j - 1) % nb, both counted from 0.
Interleaved(buffer, im, nb) ==
    \A j \in DOMAIN buffer :
       buffer[j] = PlaneSample(im, ((j - 1) % nb) + 1, ((j - 1) \div nb) + 1) % 256

\* C14: a successful decode of three (four) components of 8 bits returns
\* num_bands 3 (4), precision 8, and a buffer that holds, for every pixel
\* i below width * height and every band k, the low 8 bits of sample i of
\* component k at i * num_bands + k: the bands R, G, B (, A) of a pixel
\* side by side.
C14_InterleavedBands ==
    ( /\ result.tag = "Ok"
      /\ Len(image.comps) \in {3, 4}
      /\ Precs(image) = {8} )
    => /\ result.num_bands = Len(image.comps)
       /\ result.precision = 8
       /\ IsProduct3(Len(result.buffer), result.width, result.height,
                     result.num_bands)
       /\ Interleaved(result.buffer, image, result.num_bands)

\* The two bytes at 2i - 1 and 2i are the low 16 bits of sample i, in one
\* byte order throughout.
SixteenBit(buffer, im) ==
    \E little_endian \in BOOLEAN :
       \A i \in 1..(Len(buffer) \div 2) :
          LET v == PlaneSample(im, 1, i) % 65536
          IN  <<buffer[2 * i - 1], buffer[2 * i]>> =
                 IF little_endian THEN <<v % 256, v \div 256>>
                 ELSE <<v \div 256, v % 256>>

\* C15: a decode that gets to pack a single component succeeds exactly
\* when its precision is 8 or 16.  With 8 it returns num_bands 1,
\* precision 8 and width * height bytes, the low 8 bits of each sample;
\* with 16 it returns num_bands 1, precision 16 and 2 * width * height
\* bytes, the low 16 bits of each sample in the target's byte order; with
\* any other precision it fails with UnsupportedComponentLayout and
\* returns no buffer.
C15_Grayscale ==
    ( /\ pc = "done"
      /\ Ran("BandPack")
      /\ Len(image.comps) = 1 )
    => LET prec == image.comps[1].prec
       IN  CASE prec = 8 ->
                  /\ result.tag = "Ok"
                  /\ result.num_bands = 1
                  /\ result.precision = 8
                  /\ IsProduct(Len(result.buffer), result.width, result.height)
                  /\ Interleaved(result.buffer, image, 1)
             [] prec = 16 ->
                  /\ result.tag = "Ok"
                  /\ result.num_bands = 1
                  /\ result.precision = 16
                  /\ IsProduct3(Len(result.buffer), result.width,
                                result.height, 2)
                  /\ SixteenBit(result.buffer, image)
             [] OTHER -> Unsupported

Range(seq) == {seq[i] : i \in DOMAIN seq}

\* C16: the step of decode that reads the sample planes is taken only
\* with a descriptor that FullDecode has filled and that is not yet
\* destroyed; what it returns is a sequence of byte values of its own;
\* and once the descriptor is destroyed decode is over, so that no plane
\* is read after teardown.
C16_PlanesReadWhileAlive ==
    /\ [][ (pc = "pack" /\ pc' = "done") =>
              /\ img = "ptr"
              /\ image.decoded
              /\ Call("FullDecode", "ok") \in Range(calls)
              /\ "image" \notin Range(destroyed)
         ]_vars
    /\ [](result.tag = "Ok" =>
             \A j \in DOMAIN result.buffer : result.buffer[j] \in 0..255)
    /\ []("image" \in Range(destroyed) => pc = "done")

\* Planes were packed into a buffer and the descriptor was destroyed
\* after that.
C16_Witness ==
    /\ pc = "done"
    /\ result.tag = "Ok"
    /\ result.buffer # <<>>
    /\ image.decoded
    /\ "image" \in Range(destroyed)

\* What Info::build does whatever becomes of the descriptor: Configure,
\* then HeaderRead if that succeeded, and nothing else; on success the
\* extents of the bounds; the codec and the stream destroyed once, when
\* it returns.
InfoBuildRuns ==
    /\ Len(calls) <= 2
    /\ \A i \in DOMAIN calls : calls[i].stage = <<"Configure", "HeaderRead">>[i]
    /\ \A i \in 1..(Len(calls) - 1) : calls[i].outcome = "ok"
    /\ \A s \in {"ThreadHint", "RegionRestrict", "FullDecode"} : ~Ran(s)
    /\ result.tag = "Ok" =>
          /\ pc = "done"
          /\ calls = <<Call("Configure", "ok"), Call("HeaderRead", "ok")>>
          /\ result.width = image.x1 - image.x0
          /\ result.height = image.y1 - image.y0
    /\ result.tag = "Err" =>
          /\ pc = "done"
          /\ LastCall.outcome = "failed"
    /\ pc = "done" =>
          /\ result.tag \in {"Ok", "Err"}
          /\ Count(destroyed, "codec") = 1
          /\ Count(destroyed, "stream") = 1
    /\ pc # "done" => destroyed = <<>>

\* C17, as stated: Info::build runs Configure and then HeaderRead and no
\* other stage, returns the extents x1 - x0 and y1 - y0 of the bounds on
\* success, and on success and on each failure the codec, the stream and
\* the image descriptor have each been destroyed exactly once when it
\* returns.
C17_InfoBuildDestroysAll ==
    consumer = "Info::build" =>
       /\ InfoBuildRuns
       /\ pc = "done" => Count(destroyed, "image") = 1

\* C17, amended: the same, with the image descriptor destroyed exactly
\* once if the engine created one and not at all otherwise (a failure of
\* Configure comes before any descriptor, a failed HeaderRead may leave
\* none).
C17_InfoBuild ==
    consumer = "Info::build" =>
       /\ InfoBuildRuns
       /\ pc = "done" =>
             Count(destroyed, "image") = (IF img = "ptr" THEN 1 ELSE 0)
       /\ (pc = "done" /\ result.tag = "Ok") => Count(destroyed, "image") = 1

\* Info::build read a header and returned the extents of bounds that do
\* not start at the origin.
C17_Witness ==
    /\ consumer = "Info::build"
    /\ pc = "done"
    /\ result.tag = "Ok"
    /\ image.x0 = 1
    /\ result.width = 2
    /\ result.height = 3
    /\ destroyed = <<"image", "stream", "codec">>

\* C18: the samples decode reads from each plane are as many as the
\* product width * height of the dimensions it returns, and the packed
\* buffer as long as width * height * num_bands samples: neither u32
\* product wraps.
C18_NoWrap ==
    result.tag = "Ok" =>
       IsProduct3(Len(result.buffer) \div (result.precision \div 8),
                  result.width, result.height, result.num_bands)

====
